---- MODULE Spec2Model ----
(***************************************************************************)
(* Model of the task manager:                                              *)
(*   - the smart scheduling engine (getSmartSchedulingSuggestions,         *)
(*     findFreeTimeSlots, checkForConflicts, getNextAvailableSlot),        *)
(*   - the natural-language quick-add parser (parseNaturalLanguage), and   *)
(*   - the REST routes for lists, labels and tasks over the database.      *)
(*                                                                         *)
(* A Date is its number of whole seconds of local wall-clock time since    *)
(* local midnight of day 0 (1 January of a common year); milliseconds are  *)
(* left out and every day has 24 hours (no DST change).                    *)
(* A string is a TLA+ string; its characters are SubSeq(s, i, i).          *)
(***************************************************************************)
EXTENDS Integers, Sequences, FiniteSets, TLC

VARIABLES
    now,            \* the clock read by "new Date()"
    existingTasks,  \* the caller's commitment list (TaskTimeSlot[])
    call,           \* the last call made: its name and arguments
    tasksOnDate,    \* suggest: the filtered and sorted copy of the commitments
    freeSlots,      \* suggest: the result of findFreeTimeSlots
    suggestions,    \* suggest: the returned SchedulingSuggestion[]
    conflict,       \* checkForConflicts: the returned boolean
    pc,             \* getNextAvailableSlot: "idle", "probing" or "done"
    i,              \* getNextAvailableSlot: the loop counter
    currentTime,    \* getNextAvailableSlot: the probe time
    nextSlot,       \* getNextAvailableSlot: the returned Date, or NoDate
    inputText,      \* the text typed into the quick-add box
    typed,          \* the number of pieces typed into the quick-add box
    parsed,         \* parseNaturalLanguage: the returned ParsedTaskData
    target,         \* the language level the routes are compiled to
    listTable,      \* table "lists": the row with id k is listTable[k]
    labelTable,     \* table "labels"
    taskTable,      \* table "tasks"
    taskLabelTable, \* table "task_labels": a set of [taskId, labelId]
    subtaskTable,   \* table "subtasks"
    response        \* the response of the last request

\* the state of the REST routes
apiVars == <<target, listTable, labelTable, taskTable, taskLabelTable, subtaskTable, response>>

vars == <<now, existingTasks, call, tasksOnDate, freeSlots, suggestions,
          conflict, pc, i, currentTime, nextSlot, inputText, typed, parsed,
          target, listTable, labelTable, taskTable, taskLabelTable, subtaskTable, response>>

(***************************************************************************)
(* Dates (JavaScript Date and date-fns, local wall-clock arithmetic)       *)
(***************************************************************************)
\* one minute, hour and day of a Date (the code's "1000 * 60" milliseconds)
PerMinute == 60
PerHour == 60 * PerMinute
PerDay == 24 * PerHour

\* null / undefined where a Date is expected
NoDate == -1

getHours(d) == (d % PerDay) \div PerHour
getMinutes(d) == (d % PerHour) \div PerMinute
startOfDay(d) == d - (d % PerDay)
addMinutes(d, n) == d + n * PerMinute
addHours(d, n) == d + n * PerHour
\* setMinutes and setHours replace one field and keep the others, so the
\* seconds and milliseconds of d survive
setMinutes(d, m) == d + (m - getMinutes(d)) * PerMinute
setHours(d, h) == d + (h - getHours(d)) * PerHour
\* Date.prototype.toDateString: two dates give the same string exactly when
\* they fall on the same calendar day; the day number stands for the string
toDateString(d) == d \div PerDay
\* format(d, 'h:mm a'): 12-hour clock hour, two-digit minute, meridiem
format_h_mm_a(d) ==
    <<IF getHours(d) % 12 = 0 THEN 12 ELSE getHours(d) % 12,
      getMinutes(d),
      IF getHours(d) < 12 THEN "AM" ELSE "PM">>

\* the Date at h:m:s on the given day
At(day, h, m, s) == day * PerDay + h * PerHour + m * PerMinute + s

(***************************************************************************)
(* Scheduling engine                                                       *)
(***************************************************************************)
DEFAULT_WORKING_HOURS == [start |-> 9, end |-> 18]
BREAK_DURATION_MINUTES == 15

\* mutant: the ends of the intervals count as overlap
areIntervalsOverlappingInclusive(left, right) ==
    left.start <= right.end /\ right.start <= left.end

\* areIntervalsOverlapping(left, right) of date-fns, exclusive ends
areIntervalsOverlapping(left, right) ==
    left.start < right.end /\ right.start < left.end

\* existingTasks.some(task => areIntervalsOverlapping(proposed, task))
checkForConflicts(proposedTime, durationMinutes, tasks) ==
    LET proposedEnd == addMinutes(proposedTime, durationMinutes)
        proposedInterval == [start |-> proposedTime, end |-> proposedEnd]
    IN  \E k \in 1..Len(tasks) :
            areIntervalsOverlapping(proposedInterval,
                                    [start |-> tasks[k].start, end |-> tasks[k].end])

\* mutant: the cursor is not moved past the task
CursorAfterStays(cursor, task) == cursor

\* the cursor after a task: "currentTime = addMinutes(task.end, BREAK)"
CursorAfter(cursor, task) == addMinutes(task.end, BREAK_DURATION_MINUTES)

\* the slots a gap before a task contributes (none or one)
GapSlot(cursor, task, durationMinutes) ==
    IF cursor < task.start
       /\ task.start - cursor >= (durationMinutes + BREAK_DURATION_MINUTES) * PerMinute
       /\ addMinutes(cursor, durationMinutes) <= task.start
    THEN <<[start |-> cursor, end |-> addMinutes(cursor, durationMinutes)]>>
    ELSE <<>>

\* the slots the time after the last task contributes (none or one)
TailSlot(cursor, workingEnd, durationMinutes) ==
    IF cursor < workingEnd
       /\ workingEnd - cursor >= durationMinutes * PerMinute
       /\ addMinutes(cursor, durationMinutes) <= workingEnd
    THEN <<[start |-> cursor, end |-> addMinutes(cursor, durationMinutes)]>>
    ELSE <<>>

RECURSIVE FreeLoop(_, _, _, _, _, _)
\* the for loop of findFreeTimeSlots from task k on, then the tail check
FreeLoop(tasks, k, cursor, slots, workingEnd, durationMinutes) ==
    IF k > Len(tasks)
    THEN slots \o TailSlot(cursor, workingEnd, durationMinutes)
    ELSE FreeLoop(tasks, k + 1, CursorAfter(cursor, tasks[k]),
                  slots \o GapSlot(cursor, tasks[k], durationMinutes),
                  workingEnd, durationMinutes)

findFreeTimeSlots(targetDate, tasks, durationMinutes) ==
    LET workingStart == setHours(setMinutes(targetDate, 0), DEFAULT_WORKING_HOURS.start)
        workingEnd == setHours(setMinutes(targetDate, 0), DEFAULT_WORKING_HOURS.end)
    IN  FreeLoop(tasks, 1, workingStart, <<>>, workingEnd, durationMinutes)

\* mutant: the lunch hours are tested before the morning hours
generateSuggestionReasonLunchFirst(slot, tasks, priority) ==
    LET timeStr == format_h_mm_a(slot.start)
        hour == getHours(slot.start)
        Abs(x) == IF x < 0 THEN -x ELSE x
        nearbyTasks == {k \in 1..Len(tasks) :
                          Abs(tasks[k].start - slot.start) < 2 * 60 * PerMinute}
    IN  IF hour >= 11 /\ hour <= 13
        THEN [text |-> "Lunch hour slot - good for meetings", at |-> timeStr]
        ELSE IF hour >= 9 /\ hour <= 11
        THEN [text |-> "Great morning slot - high productivity time", at |-> timeStr]
        ELSE IF hour >= 14 /\ hour <= 16
        THEN [text |-> "Good afternoon slot - focused work time", at |-> timeStr]
        ELSE IF nearbyTasks = {}
        THEN [text |-> "Free slot - no nearby tasks", at |-> timeStr]
        ELSE [text |-> "Available slot - fits well with your schedule", at |-> timeStr]

generateSuggestionReason(slot, tasks, priority) ==
    LET timeStr == format_h_mm_a(slot.start)
        hour == getHours(slot.start)
        Abs(x) == IF x < 0 THEN -x ELSE x
        nearbyTasks == {k \in 1..Len(tasks) :
                          Abs(tasks[k].start - slot.start) < 2 * 60 * PerMinute}
    IN  IF hour >= 9 /\ hour <= 11
        THEN [text |-> "Great morning slot - high productivity time", at |-> timeStr]
        ELSE IF hour >= 14 /\ hour <= 16
        THEN [text |-> "Good afternoon slot - focused work time", at |-> timeStr]
        ELSE IF hour >= 11 /\ hour <= 13
        THEN [text |-> "Lunch hour slot - good for meetings", at |-> timeStr]
        ELSE IF nearbyTasks = {}
        THEN [text |-> "Free slot - no nearby tasks", at |-> timeStr]
        ELSE [text |-> "Available slot - fits well with your schedule", at |-> timeStr]

calculateConfidence(slot, tasks, priority) ==
    LET hour == getHours(slot.start)
    IN  IF (hour >= 9 /\ hour <= 11) \/ (hour >= 14 /\ hour <= 16)
        THEN "high"
        ELSE IF hour >= DEFAULT_WORKING_HOURS.start /\ hour <= DEFAULT_WORKING_HOURS.end
        THEN "medium"
        ELSE "low"

\* Array.prototype.sort with (a, b) => a.start - b.start: a stable insertion
\* of each element after the elements whose start is not larger
RECURSIVE SortByStart(_)
SortByStart(arr) ==
    IF arr = <<>> THEN <<>>
    ELSE LET last == arr[Len(arr)]
             front == SortByStart(SubSeq(arr, 1, Len(arr) - 1))
             keep == Cardinality({k \in 1..Len(front) : front[k].start <= last.start})
         IN  SubSeq(front, 1, keep) \o <<last>> \o SubSeq(front, keep + 1, Len(front))

\* mutant: the caller's array is sorted
SortReceiverCaller == "existingTasks"

\* the array that ".sort" is called on (it sorts its receiver in place)
SortReceiver == "tasksOnDate"

\* mutant: one slot more is turned into a suggestion
SuggestionLimitSix == 5 + 1

\* the number of slots turned into suggestions: freeSlots.slice(0, 5)
SuggestionLimit == 5
DefaultDuration == 60

\* mutant: the fallback is computed from the clock
FallbackTimeFromNow(targetDate, clock) == addHours(startOfDay(addHours(clock, 24)), 9)

\* the time of the fallback suggestion: 9:00 of the day after the target date
FallbackTime(targetDate, clock) == addHours(startOfDay(addHours(targetDate, 24)), 9)

\* mutant: without a preferred date the target date is always now
TargetDateToday(options, clock) ==
    IF "preferredDate" \in DOMAIN options THEN options.preferredDate
    ELSE clock

\* the target date: the preferred date, else now before 18:00, else 9:00 of
\* the next day
TargetDate(options, clock) ==
    IF "preferredDate" \in DOMAIN options THEN options.preferredDate
    ELSE IF getHours(clock) < 18 THEN clock
    ELSE addHours(startOfDay(addHours(clock, 24)), 9)

\* getSmartSchedulingSuggestions: the value it returns and the arrays it
\* leaves behind (the caller's list and the local tasksOnDate)
getSmartSchedulingSuggestions(tasks, options, clock) ==
    LET duration == IF "duration" \in DOMAIN options THEN options.duration
                    ELSE DefaultDuration
        priority == IF "priority" \in DOMAIN options THEN options.priority
                    ELSE "medium"
        targetDate == TargetDate(options, clock)
        filtered == SelectSeq(tasks,
                       LAMBDA t : toDateString(t.start) = toDateString(targetDate))
        arrays == [existingTasks |-> tasks, tasksOnDate |-> filtered]
        sorted == [arrays EXCEPT ![SortReceiver] = SortByStart(@)]
        onDate == sorted.tasksOnDate
        slots == findFreeTimeSlots(targetDate, onDate, duration)
        top == SubSeq(slots, 1, IF Len(slots) < SuggestionLimit THEN Len(slots)
                                ELSE SuggestionLimit)
        fromSlots == [k \in 1..Len(top) |->
                        [suggestedTime |-> top[k].start,
                         reason |-> generateSuggestionReason(top[k], onDate, priority),
                         confidence |-> calculateConfidence(top[k], onDate, priority)]]
        nextDay == FallbackTime(targetDate, clock)
        fallback == [suggestedTime |-> nextDay,
                     reason |-> [text |-> "No available slots today. Suggested for tomorrow morning."],
                     confidence |-> "medium"]
    IN  [existingTasks |-> sorted.existingTasks,
         targetDate |-> targetDate,
         duration |-> duration,
         tasksOnDate |-> onDate,
         freeSlots |-> slots,
         suggestions |-> IF Len(fromSlots) = 0 THEN <<fallback>> ELSE fromSlots]

(***************************************************************************)
(* getNextAvailableSlot                                                    *)
(***************************************************************************)
\* mutant: the probe moves on by half an hour
ProbeStepMinutesHalfHour == 15 + 15

\* the probe budget "24 * 4" and the probe step of 15 minutes
ProbeCount == 24 * 4
ProbeStepMinutes == 15

(***************************************************************************)
(* Calendar (date-fns on local dates); day 0 is Thursday 1 January of a    *)
(* common year and the years that follow are common years too              *)
(***************************************************************************)
MonthLengths == <<31, 28, 31, 30, 31, 30, 31, 31, 30, 31, 30, 31>>

RECURSIVE DaysBeforeMonth(_)
\* the days of the year before month m (1..13)
DaysBeforeMonth(m) == IF m = 1 THEN 0 ELSE DaysBeforeMonth(m - 1) + MonthLengths[m - 1]

DaysPerYear == DaysBeforeMonth(13)
getYear(d) == (d \div PerDay) \div DaysPerYear
DayOfYear(d) == (d \div PerDay) % DaysPerYear
\* Date.getMonth() + 1
getMonth(d) == CHOOSE m \in 1..12 :
                  DaysBeforeMonth(m) <= DayOfYear(d) /\ DayOfYear(d) < DaysBeforeMonth(m + 1)
\* Date.getDate()
getDate(d) == DayOfYear(d) - DaysBeforeMonth(getMonth(d)) + 1
\* Date.getDay(): 0 is Sunday
getDay(d) == ((d \div PerDay) + 4) % 7
endOfDay(d) == startOfDay(d) + PerDay - 1
addDays(d, n) == d + n * PerDay
addWeeks(d, n) == addDays(d, 7 * n)
\* addMonths: the same day of the month n months on, or the last day of that
\* month when it is shorter; the time of day is kept
addMonths(d, n) ==
    LET months == getYear(d) * 12 + (getMonth(d) - 1) + n
        year == months \div 12
        month == (months % 12) + 1
        date == IF getDate(d) < MonthLengths[month] THEN getDate(d)
                ELSE MonthLengths[month]
    IN  (year * DaysPerYear + DaysBeforeMonth(month) + date - 1) * PerDay + (d % PerDay)

(***************************************************************************)
(* Strings and regular expressions                                         *)
(***************************************************************************)
Char(s, k) == SubSeq(s, k, k)
\* s.substring(from - 1, to) for 1-based from: cut to the string
Sub(s, from, to) == SubSeq(s, from, IF to < Len(s) THEN to ELSE Len(s))
CharsOf(s) == {Char(s, k) : k \in 1..Len(s)}
UpperCase == "ABCDEFGHIJKLMNOPQRSTUVWXYZ"
LowerCase == "abcdefghijklmnopqrstuvwxyz"
DigitChars == "0123456789"
DigitSet == CharsOf(DigitChars)
UpperSet == CharsOf(UpperCase)
WordSet == CharsOf(UpperCase) \cup CharsOf(LowerCase) \cup CharsOf(DigitChars) \cup {"_"}
\* \d, \s and \w
IsDigit(c) == c \in DigitSet
IsSpace(c) == c = " "
IsWordChar(c) == c \in WordSet
DigitValues == [c \in DigitSet |-> (CHOOSE k \in 1..10 : Char(DigitChars, k) = c) - 1]
DigitValue(c) == DigitValues[c]
LowerChars == [c \in UpperSet |-> Char(LowerCase, CHOOSE k \in 1..26 : Char(UpperCase, k) = c)]
LowerChar(c) == IF c \in UpperSet THEN LowerChars[c] ELSE c

RECURSIVE toLowerCase(_)
toLowerCase(s) ==
    IF s = "" THEN "" ELSE LowerChar(Char(s, 1)) \o toLowerCase(SubSeq(s, 2, Len(s)))

\* parseInt of a string of digits
RECURSIVE parseInt(_)
parseInt(s) ==
    IF s = "" THEN 0
    ELSE 10 * parseInt(SubSeq(s, 1, Len(s) - 1)) + DigitValue(Char(s, Len(s)))

\* String.prototype.includes
includes(s, keyword) ==
    \E p \in 1..(Len(s) - Len(keyword) + 1) : SubSeq(s, p, p + Len(keyword) - 1) = keyword

RECURSIVE SkipSpaces(_, _)
\* the first position from p on that holds no white space (greedy \s*)
SkipSpaces(s, p) ==
    IF p <= Len(s) /\ IsSpace(Char(s, p)) THEN SkipSpaces(s, p + 1) ELSE p

RECURSIVE trimStart(_)
trimStart(s) ==
    IF s # "" /\ IsSpace(Char(s, 1)) THEN trimStart(SubSeq(s, 2, Len(s))) ELSE s

RECURSIVE trimEnd(_)
trimEnd(s) ==
    IF s # "" /\ IsSpace(Char(s, Len(s))) THEN trimEnd(SubSeq(s, 1, Len(s) - 1)) ELSE s

\* String.prototype.trim
trim(s) == trimEnd(trimStart(s))

NoMatch == [found |-> FALSE]

\* one attempt of /(?:at\s+)?(\d{1,2})(?::(\d{2}))?\s*(am|pm|AM|PM)?/ at
\* position p: the match (first position, position after it, the groups) or
\* NoMatch; an absent group is the empty string
TimeMatchAt(s, p) ==
    LET afterAt == IF Sub(s, p, p + 1) = "at" /\ p + 2 <= Len(s) /\ IsSpace(Char(s, p + 2))
                   THEN SkipSpaces(s, p + 2)
                   ELSE p
        first == IF afterAt <= Len(s) /\ IsDigit(Char(s, afterAt)) THEN afterAt ELSE p
        hourLen == IF first + 1 <= Len(s) /\ IsDigit(Char(s, first + 1)) THEN 2 ELSE 1
        afterHour == first + hourLen
        hasMinute == /\ afterHour + 2 <= Len(s)
                     /\ Char(s, afterHour) = ":"
                     /\ IsDigit(Char(s, afterHour + 1))
                     /\ IsDigit(Char(s, afterHour + 2))
        afterMinute == IF hasMinute THEN afterHour + 3 ELSE afterHour
        afterSpace == SkipSpaces(s, afterMinute)
        hasAmPm == Sub(s, afterSpace, afterSpace + 1) \in {"am", "pm", "AM", "PM"}
    IN  IF first <= Len(s) /\ IsDigit(Char(s, first))
        THEN [found |-> TRUE,
              from |-> p,
              to |-> IF hasAmPm THEN afterSpace + 2 ELSE afterSpace,
              hour |-> SubSeq(s, first, afterHour - 1),
              minute |-> IF hasMinute THEN SubSeq(s, afterHour + 1, afterHour + 2) ELSE "",
              ampm |-> IF hasAmPm THEN SubSeq(s, afterSpace, afterSpace + 1) ELSE ""]
        ELSE NoMatch

RECURSIVE TimeMatchesFrom(_, _)
\* [...input.matchAll(timeRegex)] from position p on, left to right
TimeMatchesFrom(s, p) ==
    IF p > Len(s) THEN <<>>
    ELSE LET m == TimeMatchAt(s, p)
         IN  IF m.found THEN <<m>> \o TimeMatchesFrom(s, m.to)
             ELSE TimeMatchesFrom(s, p + 1)

RECURSIVE RemoveFirstTimeFrom(_, _)
\* mutant: only the first match is removed (a regex without the g flag)
RemoveFirstTimeFrom(s, p) ==
    IF p > Len(s) THEN ""
    ELSE LET m == TimeMatchAt(s, p)
         IN  IF m.found THEN SubSeq(s, m.to, Len(s))
             ELSE Char(s, p) \o RemoveFirstTimeFrom(s, p + 1)

RECURSIVE RemoveTimesFrom(_, _)
\* title.replace(timeRegex, '') from position p on
RemoveTimesFrom(s, p) ==
    IF p > Len(s) THEN ""
    ELSE LET m == TimeMatchAt(s, p)
         IN  IF m.found THEN RemoveTimesFrom(s, m.to)
             ELSE Char(s, p) \o RemoveTimesFrom(s, p + 1)

\* a match of /\bword\b/i at position p of s, of which lower is the
\* lower-case form (word is in lower case, starts and ends with a letter)
WordAt(lower, p, word) ==
    /\ p = 1 \/ ~IsWordChar(Char(lower, p - 1))
    /\ p + Len(word) - 1 <= Len(lower)
    /\ SubSeq(lower, p, p + Len(word) - 1) = word
    /\ p + Len(word) > Len(lower) \/ ~IsWordChar(Char(lower, p + Len(word)))

RECURSIVE RemoveWordsAt(_, _, _, _)
\* s.replace(/\b(w1|w2|...)\b/gi, '') from position p on
RemoveWordsAt(s, lower, p, words) ==
    IF p > Len(s) THEN ""
    ELSE LET hits == {k \in 1..Len(words) : WordAt(lower, p, words[k])}
         IN  IF hits # {}
             THEN LET k == CHOOSE h \in hits : \A g \in hits : h <= g
                  IN  RemoveWordsAt(s, lower, p + Len(words[k]), words)
             ELSE Char(s, p) \o RemoveWordsAt(s, lower, p + 1, words)

RemoveWordsFrom(s, p, words) == RemoveWordsAt(s, toLowerCase(s), p, words)

RECURSIVE RemoveEachWord(_, _, _)
\* for (const keyword of words) title = title.replace(/\bkeyword\b/gi, '').trim()
RemoveEachWord(s, k, words) ==
    IF s = "" \/ k > Len(words) THEN s
    ELSE RemoveEachWord(trim(RemoveWordsFrom(s, 1, <<words[k]>>)), k + 1, words)

RECURSIVE CollapseSpaces(_)
\* s.replace(/\s+/g, ' ')
CollapseSpaces(s) ==
    IF s = "" THEN ""
    ELSE IF IsSpace(Char(s, 1))
    THEN " " \o CollapseSpaces(SubSeq(s, SkipSpaces(s, 1), Len(s)))
    ELSE Char(s, 1) \o CollapseSpaces(SubSeq(s, 2, Len(s)))

(***************************************************************************)
(* Natural-language parser                                                 *)
(***************************************************************************)
\* the vocabularies, in the order of Object.entries
TIME_KEYWORDS ==
    << <<"morning", 9>>, <<"afternoon", 14>>, <<"evening", 18>>, <<"night", 20>>,
       <<"midnight", 0>>, <<"noon", 12>> >>

\* mutant: yesterday is declared before tomorrow
DATE_KEYWORDS_YesterdayFirst ==
    <<"today", "yesterday", "tomorrow", "next week", "next month", "end of week",
      "end of month">>

DATE_KEYWORDS ==
    <<"today", "tomorrow", "yesterday", "next week", "next month", "end of week",
      "end of month">>

\* DATE_KEYWORDS[keyword](now)
DateOf(keyword, clock) ==
    CASE keyword = "today" -> startOfDay(clock)
      [] keyword = "tomorrow" -> startOfDay(addDays(clock, 1))
      [] keyword = "yesterday" -> startOfDay(addDays(clock, -1))
      [] keyword = "next week" -> startOfDay(addWeeks(clock, 1))
      [] keyword = "next month" -> startOfDay(addMonths(clock, 1))
      [] keyword = "end of week" -> endOfDay(addDays(clock, 6 - getDay(clock)))
      [] keyword = "end of month" -> endOfDay(addMonths(clock, 1))

PRIORITY_KEYWORDS ==
    << <<"low", "low">>, <<"medium", "medium">>, <<"high", "high">>,
       <<"urgent", "urgent">>, <<"important", "high">>, <<"critical", "urgent">>,
       <<"asap", "urgent">> >>

LABEL_KEYWORDS ==
    <<"work", "personal", "urgent", "meeting", "call", "email", "shopping",
      "health", "finance", "home", "family", "friends", "travel", "project">>

FILLER_WORDS ==
    <<"at", "on", "in", "for", "with", "by", "due", "deadline", "priority", "label">>

\* the keys of a vocabulary
Keys(table) == [k \in 1..Len(table) |-> table[k][1]]

\* the first position of keyword in s, or 0 (String.prototype.indexOf + 1)
indexOf(s, keyword) ==
    IF includes(s, keyword)
    THEN CHOOSE p \in 1..Len(s) :
            /\ SubSeq(s, p, p + Len(keyword) - 1) = keyword
            /\ \A q \in 1..(p - 1) : SubSeq(s, q, q + Len(keyword) - 1) # keyword
    ELSE 0

\* mutant: the keyword that stands first in the input wins
FirstIncludedByPosition(lowerInput, keywords) ==
    IF \E k \in 1..Len(keywords) : includes(lowerInput, keywords[k])
    THEN CHOOSE k \in 1..Len(keywords) :
            /\ includes(lowerInput, keywords[k])
            /\ \A j \in 1..Len(keywords) :
                  includes(lowerInput, keywords[j]) =>
                      \/ indexOf(lowerInput, keywords[k]) < indexOf(lowerInput, keywords[j])
                      \/ /\ indexOf(lowerInput, keywords[k]) = indexOf(lowerInput, keywords[j])
                         /\ k <= j
    ELSE 0

\* the index of the first entry whose keyword the lower-cased input includes,
\* or 0
FirstIncluded(lowerInput, keywords) ==
    IF \E k \in 1..Len(keywords) : includes(lowerInput, keywords[k])
    THEN CHOOSE k \in 1..Len(keywords) :
            /\ includes(lowerInput, keywords[k])
            /\ \A j \in 1..(k - 1) : ~includes(lowerInput, keywords[j])
    ELSE 0

NoTime == [found |-> FALSE]

\* mutant: the meridiem is ignored
TimeOfMatchNoMeridiem(match) ==
    [found |-> TRUE,
     hour |-> parseInt(match.hour),
     minute |-> IF match.minute # "" THEN parseInt(match.minute) ELSE 0]

\* the time of the first clock-time match
TimeOfMatch(match) ==
    LET hour == parseInt(match.hour)
        minute == IF match.minute # "" THEN parseInt(match.minute) ELSE 0
        ampm == toLowerCase(match.ampm)
        afterPm == IF ampm = "pm" /\ hour # 12 THEN hour + 12 ELSE hour
        adjustedHour == IF ampm = "am" /\ hour = 12 THEN 0 ELSE afterPm
    IN  [found |-> TRUE, hour |-> adjustedHour, minute |-> minute]

\* mutant: the last clock-time match is taken
ParsedTimeLastMatch(input, lowerInput) ==
    LET timeMatches == TimeMatchesFrom(input, 1)
        word == FirstIncluded(lowerInput, Keys(TIME_KEYWORDS))
    IN  IF Len(timeMatches) > 0 THEN TimeOfMatch(timeMatches[Len(timeMatches)])
        ELSE IF word # 0 THEN [found |-> TRUE, hour |-> TIME_KEYWORDS[word][2], minute |-> 0]
        ELSE NoTime

\* parsedTime: from the first clock-time match, else from the first time
\* keyword, else undefined
ParsedTime(input, lowerInput) ==
    LET timeMatches == TimeMatchesFrom(input, 1)
        word == FirstIncluded(lowerInput, Keys(TIME_KEYWORDS))
    IN  IF Len(timeMatches) > 0 THEN TimeOfMatch(timeMatches[1])
        ELSE IF word # 0 THEN [found |-> TRUE, hour |-> TIME_KEYWORDS[word][2], minute |-> 0]
        ELSE NoTime

\* finalDate: the parsed date with the parsed time, or the parsed time today
CombineDateTime(parsedDate, parsedTime, clock) ==
    IF parsedDate # NoDate
    THEN IF parsedTime.found
         THEN setHours(setMinutes(parsedDate, parsedTime.minute), parsedTime.hour)
         ELSE parsedDate
    ELSE IF parsedTime.found
    THEN setHours(setMinutes(clock, parsedTime.minute), parsedTime.hour)
    ELSE NoDate

\* mutant: an empty title is returned as it is
DefaultTitleNone(title) == title

\* "if (!title) title = 'New Task'"
DefaultTitle(title) == IF title = "" THEN "New Task" ELSE title

\* mutant: an undefined priority is returned as it is
DefaultPriorityUndefined(priority) == priority

\* "priority: priority || 'medium'"; an undefined priority is ""
DefaultPriority(priority) == IF priority = "" THEN "medium" ELSE priority

\* the title: the input without the clock times, the vocabulary words and
\* the filler words
TitleOf(input) ==
    LET noTimes == trim(RemoveTimesFrom(input, 1))
        noDates == RemoveEachWord(noTimes, 1, DATE_KEYWORDS)
        noPriorities == RemoveEachWord(noDates, 1, Keys(PRIORITY_KEYWORDS))
        noLabels == RemoveEachWord(noPriorities, 1, LABEL_KEYWORDS)
        noFillers == trim(RemoveWordsFrom(noLabels, 1, FILLER_WORDS))
    IN  DefaultTitle(trim(CollapseSpaces(noFillers)))

\* parseNaturalLanguage; an undefined dueDate is NoDate and undefined labels
\* are the empty sequence
parseNaturalLanguage(input, clock) ==
    LET lowerInput == toLowerCase(input)
        date == FirstIncluded(lowerInput, DATE_KEYWORDS)
        parsedDate == IF date # 0 THEN DateOf(DATE_KEYWORDS[date], clock) ELSE NoDate
        parsedTime == ParsedTime(input, lowerInput)
        pri == FirstIncluded(lowerInput, Keys(PRIORITY_KEYWORDS))
    IN  [title |-> TitleOf(input),
         dueDate |-> CombineDateTime(parsedDate, parsedTime, clock),
         priority |-> DefaultPriority(IF pri # 0 THEN PRIORITY_KEYWORDS[pri][2] ELSE ""),
         labels |-> SelectSeq(LABEL_KEYWORDS, LAMBDA label : includes(lowerInput, label))]

(***************************************************************************)
(* Inputs                                                                  *)
(***************************************************************************)
\* the longest commitment list the caller builds
MaxTasks == 5

\* a commitment (TaskTimeSlot; its title and priority are read by no function)
Task(s, e) == [start |-> s, end |-> e]

\* the commitments the caller adds, in the order it adds them (not by start)
TaskPool ==
    << Task(At(0, 15, 45, 0), At(0, 16, 15, 0)),
       Task(At(0, 10, 0, 0), At(0, 10, 15, 0)),
       Task(At(0, 12, 45, 0), At(0, 13, 15, 0)),
       Task(At(0, 11, 15, 0), At(0, 11, 45, 0)),
       Task(At(0, 14, 15, 0), At(0, 14, 45, 0)),
       Task(At(0, 7, 0, 0), At(0, 7, 30, 0)),
       Task(At(0, 9, 0, 0), At(0, 17, 0, 0)),
       Task(At(0, 8, 0, 0), At(1, 19, 0, 0)),
       Task(At(1, 8, 0, 0), At(1, 19, 0, 0)),
       Task(At(0, 13, 0, 0), At(0, 13, 0, 0)) >>

\* the index in TaskPool of a commitment
PoolIndex(t) == CHOOSE k \in 1..Len(TaskPool) : TaskPool[k] = t

\* commitments early in the morning, in the evening and on the next day, in
\* the order the caller adds them
DayPool ==
    << Task(At(0, 17, 20, 0), At(0, 17, 50, 0)),
       Task(At(0, 10, 0, 0), At(0, 10, 50, 0)),
       Task(At(0, 19, 30, 0), At(0, 20, 0, 0)),
       Task(At(0, 12, 0, 0), At(0, 17, 0, 0)),
       Task(At(0, 5, 0, 0), At(0, 8, 0, 0)),
       Task(At(1, 10, 0, 0), At(1, 10, 30, 0)),
       Task(At(0, 23, 30, 0), At(1, 9, 30, 0)),
       Task(At(0, 12, 30, 0), At(0, 12, 45, 0)) >>

NowValues == {At(0, 10, 30, 45), At(0, 18, 5, 0)}
PreferredDates == {At(1, 0, 0, 0), At(0, 13, 20, 10)}
Durations == {30, 540, 600}
Priorities == {"urgent"}

\* SchedulingOptions: every field is optional
NoOption == [x \in {} |-> 0]
OptionSets ==
    {p @@ d @@ q :
        p \in {NoOption} \cup {[preferredDate |-> x] : x \in PreferredDates},
        d \in {NoOption} \cup {[duration |-> x] : x \in Durations},
        q \in {NoOption} \cup {[priority |-> x] : x \in Priorities}}

ProposedTimes == {At(0, 9, 0, 0), At(0, 9, 30, 0), At(0, 10, 0, 0), At(0, 10, 15, 0)}
StartTimes == {At(0, 9, 0, 0), At(0, 9, 50, 0)}
ProposedDurations == {0, 15, 30}

\* the longest text typed, in pieces
MaxTyped == 3

\* the most rows the tasks table and the labels table get (deleted rows
\* included)
MaxTaskRows == 1
MaxLabelRows == 2

\* the pieces of text the user types
Pieces ==
    {" ", "Call mom", "tomorrow", "at 3pm", "urgent", "homework", "next", "week",
     "12:30 AM", "2024"}

\* the clock of the parser: Saturday 31 January and Sunday 1 November
ParserNowValues == {At(30, 10, 30, 45), At(304, 20, 15, 0)}

\* texts with priority words
PriorityPieces == {"important", " asap", "asap", " important", " task", "LOW"}

\* the quick-add box's own example, in pieces
ExamplePieces == {"Call mom", " tomorrow", " at 3pm", " at 3:30 AM", "call Mom "}

\* texts with time-of-day words and no digit
TimeWordPieces ==
    {"morning", "afternoon", "evening", "night", "midnight", "noon", " ", "Meet "}

\* texts with date keywords, clock times and time-of-day words
DuePieces == {"tomorrow", "end of week", " at 3pm", " at 45", " evening", "Pay"}

\* texts with clock times
ClockPieces == {"12pm", "12 am", "at 9 AM", " 7:05", "3 PM", "14", " "}

\* texts with date keywords and no digit
DatePieces == {"yesterday", " or ", "tomorrow", "today", "next week", "end of month"}

\* texts with words between the vocabulary words, and with digits
TitlePieces == {"next", " at ", "week", "Buy 2 apples", "Report 2024", " 7:05pm", "Call"}

(***************************************************************************)
(* The database                                                            *)
(***************************************************************************)
\* null (no row found), and the place of a deleted row in its table
NullRow == [id |-> 0]

\* the default list created by the seed script
Inbox ==
    [id |-> 1, name |-> "Inbox", color |-> "#3b82f6", emoji |-> "inbox",
     description |-> "", isDefault |-> TRUE]

\* a list of the user ("isDefault" BOOLEAN NOT NULL DEFAULT false)
Work ==
    [id |-> 2, name |-> "Work", color |-> "", emoji |-> "",
     description |-> "", isDefault |-> FALSE]

NoResponse == [status |-> 0]

\* the seeded database, no request made
NoApi ==
    /\ target = "es2015"
    /\ listTable = <<Inbox>>
    /\ labelTable = <<>>
    /\ taskTable = <<>>
    /\ taskLabelTable = {}
    /\ subtaskTable = <<>>
    /\ response = NoResponse

(***************************************************************************)
(* State machine                                                           *)
(***************************************************************************)
NoCall == [op |-> "none"]
NoParse == [title |-> "", dueDate |-> NoDate, priority |-> "", labels |-> <<>>]

Init ==
    /\ now \in NowValues
    /\ existingTasks = <<>>
    /\ call = NoCall
    /\ tasksOnDate = <<>>
    /\ freeSlots = <<>>
    /\ suggestions = <<>>
    /\ conflict = FALSE
    /\ pc = "idle"
    /\ i = 0
    /\ currentTime = NoDate
    /\ nextSlot = NoDate
    /\ inputText = ""
    /\ typed = 0
    /\ parsed = NoParse
    /\ NoApi

\* the value of the last call is dropped when its arguments change
Forget ==
    /\ call' = NoCall
    /\ tasksOnDate' = <<>>
    /\ freeSlots' = <<>>
    /\ suggestions' = <<>>
    /\ conflict' = FALSE
    /\ pc' = "idle"
    /\ i' = 0
    /\ currentTime' = NoDate
    /\ nextSlot' = NoDate

\* the caller appends a commitment to its list
AddTask ==
    /\ pc # "probing"
    /\ Len(existingTasks) < MaxTasks
    /\ \E k \in 1..Len(TaskPool) :
          /\ existingTasks # <<>> => k > PoolIndex(existingTasks[Len(existingTasks)])
          /\ existingTasks' = Append(existingTasks, TaskPool[k])
    /\ Forget
    /\ UNCHANGED <<now, inputText, typed, parsed>>
    /\ UNCHANGED apiVars

\* the caller appends a commitment of the whole day to its list
AddCommitment ==
    /\ pc # "probing"
    /\ Len(existingTasks) < MaxTasks
    /\ \E k \in 1..Len(DayPool) :
          /\ \A j \in k..Len(DayPool) :
                \A n \in 1..Len(existingTasks) : existingTasks[n] # DayPool[j]
          /\ existingTasks' = Append(existingTasks, DayPool[k])
    /\ Forget
    /\ UNCHANGED <<now, inputText, typed, parsed>>
    /\ UNCHANGED apiVars

\* time passes
Tick ==
    /\ pc # "probing"
    /\ \E t \in NowValues : t > now /\ now' = t
    /\ Forget
    /\ UNCHANGED <<existingTasks, inputText, typed, parsed>>
    /\ UNCHANGED apiVars

\* a call of getSmartSchedulingSuggestions(existingTasks, options)
Suggest(options) ==
    /\ pc # "probing"
    /\ \E r \in {getSmartSchedulingSuggestions(existingTasks, options, now)} :
           /\ existingTasks' = r.existingTasks
           /\ tasksOnDate' = r.tasksOnDate
           /\ freeSlots' = r.freeSlots
           /\ suggestions' = r.suggestions
           /\ call' = [op |-> "suggest", options |-> options, now |-> now,
                       tasks |-> existingTasks, targetDate |-> r.targetDate,
                       duration |-> r.duration]
    /\ UNCHANGED <<now, conflict, pc, i, currentTime, nextSlot, inputText, typed, parsed>>
    /\ UNCHANGED apiVars

\* a call of checkForConflicts(proposedTime, durationMinutes, existingTasks)
CheckForConflicts(proposedTime, durationMinutes) ==
    /\ pc # "probing"
    /\ conflict' = checkForConflicts(proposedTime, durationMinutes, existingTasks)
    /\ call' = [op |-> "checkForConflicts", proposedTime |-> proposedTime,
                durationMinutes |-> durationMinutes, tasks |-> existingTasks]
    /\ UNCHANGED <<now, existingTasks, tasksOnDate, freeSlots, suggestions,
                   pc, i, currentTime, nextSlot, inputText, typed, parsed>>
    /\ UNCHANGED apiVars

\* getNextAvailableSlot is entered: "let currentTime = startTime", "i = 0"
NextAvailableStart(startTime, durationMinutes) ==
    /\ pc # "probing"
    /\ pc' = "probing"
    /\ i' = 0
    /\ currentTime' = startTime
    /\ nextSlot' = NoDate
    /\ call' = [op |-> "getNextAvailableSlot", startTime |-> startTime,
                durationMinutes |-> durationMinutes, tasks |-> existingTasks]
    /\ UNCHANGED <<now, existingTasks, tasksOnDate, freeSlots, suggestions, conflict,
                   inputText, typed, parsed>>
    /\ UNCHANGED apiVars

\* one iteration of the loop: return the probe time or move on 15 minutes
NextAvailableProbe ==
    /\ pc = "probing"
    /\ i < ProbeCount
    /\ IF ~checkForConflicts(currentTime, call.durationMinutes, existingTasks)
       THEN /\ nextSlot' = currentTime
            /\ pc' = "done"
            /\ UNCHANGED <<i, currentTime>>
       ELSE /\ currentTime' = addMinutes(currentTime, ProbeStepMinutes)
            /\ i' = i + 1
            /\ UNCHANGED <<nextSlot, pc>>
    /\ UNCHANGED <<now, existingTasks, call, tasksOnDate, freeSlots, suggestions, conflict,
                   inputText, typed, parsed>>
    /\ UNCHANGED apiVars

\* the loop has ended: "return null"
NextAvailableExhausted ==
    /\ pc = "probing"
    /\ i >= ProbeCount
    /\ nextSlot' = NoDate
    /\ pc' = "done"
    /\ UNCHANGED <<now, existingTasks, call, tasksOnDate, freeSlots, suggestions,
                   conflict, i, currentTime, inputText, typed, parsed>>
    /\ UNCHANGED apiVars

\* the state of the quick-add box before anything is typed
InitParser ==
    /\ now \in ParserNowValues
    /\ existingTasks = <<>>
    /\ call = NoCall
    /\ tasksOnDate = <<>>
    /\ freeSlots = <<>>
    /\ suggestions = <<>>
    /\ conflict = FALSE
    /\ pc = "idle"
    /\ i = 0
    /\ currentTime = NoDate
    /\ nextSlot = NoDate
    /\ inputText = ""
    /\ typed = 0
    /\ parsed = NoParse
    /\ NoApi

\* the user types one more piece of text
Type(piece) ==
    /\ typed < MaxTyped
    /\ inputText' = inputText \o piece
    /\ typed' = typed + 1
    /\ parsed' = NoParse
    /\ call' = NoCall
    /\ UNCHANGED <<now, existingTasks, tasksOnDate, freeSlots, suggestions, conflict,
                   pc, i, currentTime, nextSlot>>
    /\ UNCHANGED apiVars

\* a call of parseNaturalLanguage(input)
Parse ==
    /\ parsed' = parseNaturalLanguage(inputText, now)
    /\ call' = [op |-> "parseNaturalLanguage", input |-> inputText, now |-> now]
    /\ UNCHANGED <<now, existingTasks, tasksOnDate, freeSlots, suggestions, conflict,
                   pc, i, currentTime, nextSlot, inputText, typed>>
    /\ UNCHANGED apiVars

\* the scheduling suggestions
NextSuggest ==
    \/ AddTask
    \/ Tick
    \/ \E o \in OptionSets : Suggest(o)

SpecSuggest == Init /\ [][NextSuggest]_vars

\* the scheduling suggestions with commitments outside the working hours
NextDay ==
    \/ AddCommitment
    \/ Tick
    \/ \E o \in OptionSets : Suggest(o)

SpecDay == Init /\ [][NextDay]_vars

\* conflict detection
NextConflict ==
    \/ AddTask
    \/ \E t \in ProposedTimes, d \in ProposedDurations : CheckForConflicts(t, d)

SpecConflict == Init /\ [][NextConflict]_vars

\* the search for the next available slot
NextNextAvailable ==
    \/ AddTask
    \/ \E t \in StartTimes, d \in ProposedDurations : NextAvailableStart(t, d)
    \/ NextAvailableProbe
    \/ NextAvailableExhausted

SpecNextAvailable ==
    Init /\ [][NextNextAvailable]_vars
         /\ WF_vars(NextAvailableProbe) /\ WF_vars(NextAvailableExhausted)

\* the quick-add parser
NextParser ==
    \/ \E piece \in Pieces : Type(piece)
    \/ Parse

SpecParser == InitParser /\ [][NextParser]_vars

\* the parser on texts with priority words
NextPriority ==
    \/ \E piece \in PriorityPieces : Type(piece)
    \/ Parse

SpecPriority == InitParser /\ [][NextPriority]_vars

\* the parser on the quick-add example
NextExample ==
    \/ \E piece \in ExamplePieces : Type(piece)
    \/ Parse

SpecExample == InitParser /\ [][NextExample]_vars

\* the parser on texts with time-of-day words
NextTimeWords ==
    \/ \E piece \in TimeWordPieces : Type(piece)
    \/ Parse

SpecTimeWords == InitParser /\ [][NextTimeWords]_vars

\* the parser on texts with dates and times
NextDue ==
    \/ \E piece \in DuePieces : Type(piece)
    \/ Parse

SpecDue == InitParser /\ [][NextDue]_vars

\* the parser on texts with clock times
NextClock ==
    \/ \E piece \in ClockPieces : Type(piece)
    \/ Parse

SpecClock == InitParser /\ [][NextClock]_vars

\* the parser on texts with date keywords
NextDates ==
    \/ \E piece \in DatePieces : Type(piece)
    \/ Parse

SpecDates == InitParser /\ [][NextDates]_vars

\* the parser on texts that test the title
NextTitles ==
    \/ \E piece \in TitlePieces : Type(piece)
    \/ Parse

SpecTitles == InitParser /\ [][NextTitles]_vars

(***************************************************************************)
(* REST routes (Next.js route handlers over Prisma)                        *)
(*                                                                         *)
(* A request body is a function from its field names to strings; a field   *)
(* that is not in its domain is undefined.  A handler runs from its        *)
(* request to its response as one step.                                    *)
(***************************************************************************)
Has(body, field) == field \in DOMAIN body

\* "!body.field": the field is undefined or the empty string
Falsy(body, field) == ~Has(body, field) \/ body[field] = ""

NaN == -1

RECURSIVE DigitPrefix(_)
\* the digits a string starts with
DigitPrefix(s) ==
    IF s # "" /\ IsDigit(Char(s, 1))
    THEN Char(s, 1) \o DigitPrefix(SubSeq(s, 2, Len(s)))
    ELSE ""

\* parseInt(params.id) of a string of digits and letters
parseIntOrNaN(s) == IF DigitPrefix(s) = "" THEN NaN ELSE parseInt(DigitPrefix(s))

HexSet == DigitSet \cup CharsOf("abcdefABCDEF")

\* /^#[0-9A-F]{6}$/i.test(color)
IsHexColor(color) ==
    /\ Len(color) = 7
    /\ Char(color, 1) = "#"
    /\ \A k \in 2..7 : Char(color, k) \in HexSet

\* prisma.<model>.findUnique({ where: { id } }): the row, or null
findUnique(table, id) ==
    IF id \in 1..Len(table) /\ table[id].id = id THEN table[id] ELSE NullRow

\* the live rows of a table
Rows(table) == {table[k] : k \in {j \in 1..Len(table) : table[j].id # 0}}

\* prisma.<model>.update: a field that is undefined in data is left as it is
UpdateRow(row, body, fields) ==
    [f \in DOMAIN row |-> IF f \in fields /\ Has(body, f) THEN body[f] ELSE row[f]]

\* prisma.<model>.delete of the rows with the given ids
DeleteRows(table, ids) ==
    [k \in 1..Len(table) |->
        IF table[k].id # 0 /\ table[k].id \in ids THEN NullRow ELSE table[k]]

\* the validation of PUT /api/lists/[id]: does it answer 400?
ListPutInvalid(body) ==
    \/ Has(body, "name") /\ Len(trim(body.name)) = 0
    \/ Has(body, "name") /\ Len(trim(body.name)) < 2
    \/ Has(body, "name") /\ Len(trim(body.name)) > 50
    \/ ~Falsy(body, "color") /\ ~IsHexColor(body.color)
    \/ Has(body, "description") /\ Len(body.description) > 500
    \/ Falsy(body, "name")

\* mutant: no list is protected
IsDefaultNever(list) == FALSE

\* "if (list.isDefault)"
IsDefault(list) == list.isDefault

\* PUT /api/lists/[id]
ListPut(idParam, body) ==
    LET id == parseIntOrNaN(idParam)
        list == findUnique(listTable, id)
        status == IF id = NaN THEN 400
                  ELSE IF ListPutInvalid(body) THEN 400
                  ELSE IF list.id = 0 THEN 404
                  ELSE IF IsDefault(list) THEN 403
                  ELSE 200
    IN  /\ listTable' =
              IF status = 200
              THEN [listTable EXCEPT
                       ![id] = UpdateRow(list, body, {"name", "color", "emoji", "description"})]
              ELSE listTable
        /\ response' = [status |-> status]
        /\ call' = [op |-> "PUT /api/lists/[id]", id |-> idParam, body |-> body]
        /\ UNCHANGED <<target, labelTable, taskTable, taskLabelTable, subtaskTable>>
        /\ UNCHANGED <<now, existingTasks, tasksOnDate, freeSlots, suggestions, conflict,
                       pc, i, currentTime, nextSlot, inputText, typed, parsed>>

\* DELETE /api/lists/[id]; the tasks of the list, their subtasks and their
\* label links go with it (ON DELETE CASCADE)
ListDelete(idParam) ==
    LET id == parseIntOrNaN(idParam)
        list == findUnique(listTable, id)
        status == IF id = NaN THEN 400
                  ELSE IF list.id = 0 THEN 404
                  ELSE IF IsDefault(list) THEN 403
                  ELSE 200
        gone == {k \in 1..Len(taskTable) : taskTable[k].id # 0 /\ taskTable[k].listId = id}
    IN  /\ IF status = 200
           THEN /\ listTable' = DeleteRows(listTable, {id})
                /\ taskTable' = DeleteRows(taskTable, gone)
                /\ subtaskTable' =
                      DeleteRows(subtaskTable,
                                 {row.id : row \in {r \in Rows(subtaskTable) : r.taskId \in gone}})
                /\ taskLabelTable' = {link \in taskLabelTable : link.taskId \notin gone}
           ELSE UNCHANGED <<listTable, taskTable, subtaskTable, taskLabelTable>>
        /\ response' = [status |-> status]
        /\ call' = [op |-> "DELETE /api/lists/[id]", id |-> idParam]
        /\ UNCHANGED <<target, labelTable>>
        /\ UNCHANGED <<now, existingTasks, tasksOnDate, freeSlots, suggestions, conflict,
                       pc, i, currentTime, nextSlot, inputText, typed, parsed>>

\* The outcome of reading a const before the line that declares it (the
\* validation blocks of POST /api/lists, POST /api/labels and PUT
\* /api/labels/[id] stand before "const { name, ... } = body"): compiled to
\* ES2015 or later the read throws a ReferenceError, compiled to ES5 the const
\* is a hoisted var and the read gives undefined.
ReadBeforeDeclaration == IF target = "es2015" THEN "throws" ELSE "undefined"

\* POST /api/lists: the first validation reads name before its declaration;
\* a throw is caught and answered 500, an undefined name is answered 400
ListPost(body) ==
    /\ response' = [status |-> IF ReadBeforeDeclaration = "throws" THEN 500 ELSE 400]
    /\ call' = [op |-> "POST /api/lists", body |-> body]
    /\ UNCHANGED <<target, listTable, labelTable, taskTable, taskLabelTable, subtaskTable>>
    /\ UNCHANGED <<now, existingTasks, tasksOnDate, freeSlots, suggestions, conflict,
                   pc, i, currentTime, nextSlot, inputText, typed, parsed>>

RECURSIVE Repeat(_, _)
\* a string of n characters c
Repeat(c, n) ==
    IF n = 0 THEN ""
    ELSE LET half == Repeat(c, n \div 2)
         IN  half \o half \o (IF n % 2 = 1 THEN c ELSE "")

\* the requests made
IdParams == {"1", "2", "7", "x"}
ListNames == {"", "a", "Home", Repeat("n", 51)}
Colors == {"#ff0000", "red"}
Descriptions == {"notes", Repeat("d", 501)}
Emojis == {"E"}
ListBodies ==
    {n @@ c @@ d @@ e :
        n \in {NoOption} \cup {[name |-> x] : x \in ListNames},
        c \in {NoOption} \cup {[color |-> x] : x \in Colors},
        d \in {NoOption} \cup {[description |-> x] : x \in Descriptions},
        e \in {NoOption} \cup {[emoji |-> x] : x \in Emojis}}

\* the database after the seed script, with or without a list of the user's
InitApi ==
    /\ now = At(0, 10, 30, 45)
    /\ existingTasks = <<>>
    /\ call = NoCall
    /\ tasksOnDate = <<>>
    /\ freeSlots = <<>>
    /\ suggestions = <<>>
    /\ conflict = FALSE
    /\ pc = "idle"
    /\ i = 0
    /\ currentTime = NoDate
    /\ nextSlot = NoDate
    /\ inputText = ""
    /\ typed = 0
    /\ parsed = NoParse
    /\ target \in {"es2015", "es5"}
    /\ listTable \in {<<Inbox>>, <<Inbox, Work>>}
    /\ labelTable = <<>>
    /\ taskTable = <<>>
    /\ taskLabelTable = {}
    /\ subtaskTable = <<>>
    /\ response = NoResponse

\* the list routes
NextLists ==
    \/ \E id \in IdParams, body \in ListBodies : ListPut(id, body)
    \/ \E id \in IdParams : ListDelete(id)
    \/ \E body \in ListBodies : ListPost(body)

SpecLists == InitApi /\ [][NextLists]_vars

(***************************************************************************)
(* Label and task routes                                                   *)
(***************************************************************************)
\* prisma.label.findUnique({ where: { name } }): the row, or null
findUniqueByName(table, name) ==
    IF \E row \in Rows(table) : row.name = name
    THEN CHOOSE row \in Rows(table) : row.name = name
    ELSE NullRow

\* POST /api/labels: the first validation reads name before its declaration;
\* a throw is caught and answered 500, an undefined name is answered 400
LabelPost(body) ==
    /\ response' = [status |-> IF ReadBeforeDeclaration = "throws" THEN 500 ELSE 400]
    /\ call' = [op |-> "POST /api/labels", body |-> body, before |-> labelTable]
    /\ UNCHANGED <<target, listTable, labelTable, taskTable, taskLabelTable, subtaskTable>>
    /\ UNCHANGED <<now, existingTasks, tasksOnDate, freeSlots, suggestions, conflict,
                   pc, i, currentTime, nextSlot, inputText, typed, parsed>>

\* PUT /api/labels/[id]: the validations read name and color before their
\* declaration; when that read gives undefined they all pass and the handler
\* goes on with the declared name and color
LabelPut(idParam, body) ==
    LET id == parseIntOrNaN(idParam)
        label == findUnique(labelTable, id)
        status == IF id = NaN THEN 400
                  ELSE IF ReadBeforeDeclaration = "throws" THEN 500
                  ELSE IF Falsy(body, "name") THEN 400
                  ELSE IF label.id = 0 THEN 404
                  ELSE IF body.name # label.name
                          /\ findUniqueByName(labelTable, body.name).id # 0 THEN 409
                  ELSE 200
    IN  /\ labelTable' =
              IF status = 200
              THEN [labelTable EXCEPT ![id] = UpdateRow(label, body, {"name", "color"})]
              ELSE labelTable
        /\ response' = [status |-> status]
        /\ call' = [op |-> "PUT /api/labels/[id]", id |-> idParam, body |-> body,
                    before |-> labelTable]
        /\ UNCHANGED <<target, listTable, taskTable, taskLabelTable, subtaskTable>>
        /\ UNCHANGED <<now, existingTasks, tasksOnDate, freeSlots, suggestions, conflict,
                       pc, i, currentTime, nextSlot, inputText, typed, parsed>>

\* DELETE /api/labels/[id]; the links of the label go with it (ON DELETE
\* CASCADE)
LabelDelete(idParam) ==
    LET id == parseIntOrNaN(idParam)
        label == findUnique(labelTable, id)
        status == IF id = NaN THEN 400 ELSE IF label.id = 0 THEN 404 ELSE 200
    IN  /\ IF status = 200
           THEN /\ labelTable' = DeleteRows(labelTable, {id})
                /\ taskLabelTable' = {link \in taskLabelTable : link.labelId # id}
           ELSE UNCHANGED <<labelTable, taskLabelTable>>
        /\ response' = [status |-> status]
        /\ call' = [op |-> "DELETE /api/labels/[id]", id |-> idParam, before |-> labelTable]
        /\ UNCHANGED <<target, listTable, taskTable, subtaskTable>>
        /\ UNCHANGED <<now, existingTasks, tasksOnDate, freeSlots, suggestions, conflict,
                       pc, i, currentTime, nextSlot, inputText, typed, parsed>>

UpperChars == [c \in CharsOf(LowerCase) |-> Char(UpperCase, CHOOSE k \in 1..26 : Char(LowerCase, k) = c)]

RECURSIVE toUpperCase(_)
toUpperCase(s) ==
    IF s = "" THEN ""
    ELSE (IF Char(s, 1) \in DOMAIN UpperChars THEN UpperChars[Char(s, 1)] ELSE Char(s, 1))
         \o toUpperCase(SubSeq(s, 2, Len(s)))

\* the validation of POST /api/tasks: does it answer 400?  (the bodies carry
\* no dueDate, deadline, estimate, actual or recurring field)
TaskPostInvalid(body) ==
    \/ Falsy(body, "title") \/ Len(trim(body.title)) = 0
    \/ Falsy(body, "listId") \/ parseIntOrNaN(body.listId) = NaN
    \/ /\ ~Falsy(body, "priority")
       /\ toUpperCase(body.priority) \notin {"LOW", "MEDIUM", "HIGH", "URGENT"}
    \/ /\ Has(body, "subtasks")
       /\ \E k \in 1..Len(body.subtasks) : Len(trim(body.subtasks[k].title)) = 0

\* "labels.map(async (labelName) => ...)" under Promise.all: every lookup is
\* sent before any label is created, so a name is created once for each of
\* its places in the array that found no label
LabelNamesToCreate(names) ==
    SelectSeq(names, LAMBDA name : findUniqueByName(labelTable, name).id = 0)

\* the names of a sequence, each at its first place
RECURSIVE Distinct(_)
Distinct(names) ==
    IF names = <<>> THEN <<>>
    ELSE LET front == Distinct(SubSeq(names, 1, Len(names) - 1))
             last == names[Len(names)]
         IN  IF \E k \in 1..Len(front) : front[k] = last THEN front ELSE Append(front, last)

\* the labels table after the creates: the second create of one name fails
\* on the unique index "labels_name_key" and the others go through
LabelsCreated(names) ==
    LET new == Distinct(LabelNamesToCreate(names))
    IN  labelTable \o [k \in 1..Len(new) |->
                          [id |-> Len(labelTable) + k, name |-> new[k], color |-> ""]]

\* POST /api/tasks
TaskPost(body) ==
    LET names == IF Has(body, "labels") THEN body.labels ELSE <<>>
        steps == IF Has(body, "subtasks") THEN body.subtasks ELSE <<>>
        listId == parseIntOrNaN(body.listId)
        taskId == Len(taskTable) + 1
        created == LabelsCreated(names)
        labelIds == [k \in 1..Len(names) |-> findUniqueByName(created, names[k]).id]
        createFails == Len(LabelNamesToCreate(names)) # Len(Distinct(LabelNamesToCreate(names)))
        linkFails == \E j, k \in 1..Len(names) : j # k /\ labelIds[j] = labelIds[k]
        status == IF TaskPostInvalid(body) THEN 400
                  ELSE IF findUnique(listTable, listId).id = 0 THEN 404
                  ELSE IF createFails \/ linkFails THEN 500
                  ELSE 201
    IN  /\ status \in {201, 500} => Len(taskTable) < MaxTaskRows
        /\ status \in {201, 500} => Len(created) <= MaxLabelRows
        /\ IF status \in {201, 500}
           THEN /\ taskTable' =
                      Append(taskTable,
                             [id |-> taskId, title |-> trim(body.title),
                              priority |-> IF Falsy(body, "priority") THEN "MEDIUM"
                                           ELSE toUpperCase(body.priority),
                              listId |-> listId, status |-> "PENDING"])
                /\ labelTable' = created
           ELSE UNCHANGED <<taskTable, labelTable>>
        /\ IF status = 201
           THEN /\ taskLabelTable' =
                      taskLabelTable \cup
                          {[taskId |-> taskId, labelId |-> labelIds[k]] : k \in 1..Len(names)}
                /\ subtaskTable' =
                      subtaskTable \o
                          [k \in 1..Len(steps) |->
                              [id |-> Len(subtaskTable) + k, taskId |-> taskId,
                               title |-> trim(steps[k].title), completed |-> FALSE]]
           ELSE UNCHANGED <<taskLabelTable, subtaskTable>>
        /\ response' = [status |-> status]
        /\ call' = [op |-> "POST /api/tasks", body |-> body, before |-> labelTable]
        /\ UNCHANGED <<target, listTable>>
        /\ UNCHANGED <<now, existingTasks, tasksOnDate, freeSlots, suggestions, conflict,
                       pc, i, currentTime, nextSlot, inputText, typed, parsed>>

\* the requests made
LabelNames == {"a", "work", "home", Repeat("n", 31)}
LabelBodies ==
    {n @@ c :
        n \in {NoOption} \cup {[name |-> x] : x \in LabelNames},
        c \in {NoOption} \cup {[color |-> x] : x \in Colors}}
LabelPutBodies ==
    {n @@ c :
        n \in {NoOption} \cup {[name |-> x] : x \in {"work", "home"}},
        c \in {NoOption} \cup {[color |-> x] : x \in {"#ff0000"}}}
TaskBody == [title |-> "Pay rent", listId |-> "1"]
TaskBodies ==
    {NoOption, [title |-> " ", listId |-> "1"], [title |-> "Pay rent"],
     [title |-> "Pay rent", listId |-> "x"], [title |-> "Pay rent", listId |-> "7"],
     [title |-> "Pay rent", listId |-> "1", priority |-> "none"]}
    \cup
    {TaskBody @@ q @@ n @@ u :
        q \in {NoOption, [priority |-> "high"]},
        n \in {NoOption} \cup
               {[labels |-> x] : x \in {<<>>, <<"work">>, <<"home", "work">>, <<"home", "home">>}},
        u \in {NoOption} \cup
               {[subtasks |-> x] : x \in {<<[title |-> "step"]>>, <<[title |-> " "]>>}}}

\* the label routes and the creation of tasks
NextLabels ==
    \/ \E body \in LabelBodies : LabelPost(body)
    \/ \E id \in IdParams, body \in LabelPutBodies : LabelPut(id, body)
    \/ \E id \in IdParams : LabelDelete(id)
    \/ \E body \in TaskBodies : TaskPost(body)

SpecLabels == InitApi /\ [][NextLabels]_vars

(***************************************************************************)
(* Properties of the scheduling engine                                     *)
(***************************************************************************)
IsSortedByStart(tasks) ==
    \A j, k \in 1..Len(tasks) : j < k => tasks[j].start <= tasks[k].start

\* C1: every slot returned by freeSlots for commitments sorted by start, each
\* with start < end, reports no conflict against the same commitments
C1_FreeSlotHasNoConflict ==
    (/\ call.op = "suggest"
     /\ IsSortedByStart(tasksOnDate)
     /\ \A k \in 1..Len(tasksOnDate) : tasksOnDate[k].start < tasksOnDate[k].end)
    => \A k \in 1..Len(freeSlots) :
          ~checkForConflicts(freeSlots[k].start, call.duration, tasksOnDate)

\* C2: every slot returned by freeSlots starts at or after 9:00 and ends at
\* or before 18:00 of the target day
C2_SlotsInsideWorkingWindow ==
    call.op = "suggest"
    => \A k \in 1..Len(freeSlots) :
          /\ freeSlots[k].start >= At(toDateString(call.targetDate), 9, 0, 0)
          /\ freeSlots[k].end <= At(toDateString(call.targetDate), 18, 0, 0)

\* C3: hasConflict is true exactly when some commitment c has
\* proposedStart < c.end and c.start < proposedStart + duration
C3_ConflictIffOverlap ==
    call.op = "checkForConflicts"
    => (conflict <=>
          \E k \in 1..Len(call.tasks) :
              /\ call.proposedTime < call.tasks[k].end
              /\ call.tasks[k].start
                   < call.proposedTime + call.durationMinutes * PerMinute)

\* a call with a proposed interval that starts exactly at a commitment's end
\* and overlaps no commitment
C3_Witness ==
    /\ call.op = "checkForConflicts"
    /\ call.durationMinutes > 0
    /\ ~conflict
    /\ \E k \in 1..Len(call.tasks) : call.tasks[k].end = call.proposedTime

\* the probe times fromTime + 15 * k minutes, k in 0..95, that report no conflict
FreeProbes ==
    {k \in 0..95 :
        ~checkForConflicts(call.startTime + 15 * k * PerMinute,
                           call.durationMinutes, call.tasks)}

\* C4 (safety): nextAvailable makes at most 96 probes; it returns the earliest
\* probe time fromTime + 15 * k minutes without conflict, and none exactly
\* when all 96 probe times conflict
C4_NextAvailableResult ==
    call.op = "getNextAvailableSlot"
    => /\ i <= 96
       /\ pc = "done"
          => IF FreeProbes = {} THEN nextSlot = NoDate
             ELSE /\ nextSlot # NoDate
                  /\ \E k \in FreeProbes :
                        /\ nextSlot = call.startTime + 15 * k * PerMinute
                        /\ \A j \in FreeProbes : k <= j

\* C4: the result of C4_NextAvailableResult, and every call returns
C4_NextAvailable ==
    /\ []C4_NextAvailableResult
    /\ (pc = "probing") ~> (pc = "done")

\* a call that returned none after 96 probes
C4_Witness ==
    /\ call.op = "getNextAvailableSlot"
    /\ pc = "done"
    /\ i = 96
    /\ nextSlot = NoDate

\* C5: suggest returns at least 1 and at most 5 suggestions
C5_SuggestionCount ==
    call.op = "suggest" => Len(suggestions) >= 1 /\ Len(suggestions) <= 5

\* a call for a day with more than 5 free slots
C5_Witness ==
    call.op = "suggest" /\ Len(freeSlots) > 5 /\ Len(suggestions) = 5

\* C6 as claimed: with no free slot, suggest returns one suggestion, at 9:00
\* of the calendar day after 'now', with confidence medium
C6_FallbackIsTomorrowOfNow ==
    (call.op = "suggest" /\ freeSlots = <<>>)
    => /\ Len(suggestions) = 1
       /\ suggestions[1].suggestedTime = At(toDateString(call.now) + 1, 9, 0, 0)
       /\ suggestions[1].confidence = "medium"

\* C6 as amended: with no free slot, suggest returns one suggestion, at 9:00
\* of the calendar day after the target day, with confidence medium
C6_FallbackIsDayAfterTarget ==
    (call.op = "suggest" /\ freeSlots = <<>>)
    => /\ Len(suggestions) = 1
       /\ suggestions[1].suggestedTime
            = At(toDateString(call.targetDate) + 1, 9, 0, 0)
       /\ suggestions[1].confidence = "medium"

\* a fallback for a target day that is not the day of 'now'
C6_Witness ==
    /\ call.op = "suggest"
    /\ freeSlots = <<>>
    /\ Len(suggestions) = 1
    /\ toDateString(call.targetDate) # toDateString(call.now)

\* C7: a call of suggest leaves the caller's commitment list as it was, and
\* a call with the arguments and the clock of the call before it returns the
\* same suggestions
C7_SuggestIsRepeatable ==
    [][call'.op = "suggest"
       => /\ existingTasks' = existingTasks
          /\ (call.op = "suggest" /\ call.options = call'.options
                 /\ call.now = call'.now /\ call.tasks = call'.tasks)
             => suggestions' = suggestions]_vars

\* a call whose commitments of the target day were not in start order
C7_Witness ==
    /\ call.op = "suggest"
    /\ Len(tasksOnDate) >= 2
    /\ ~IsSortedByStart(call.tasks)
    /\ existingTasks = call.tasks

\* C8: with no commitment, freeSlots returns the one slot [9:00, 9:00 + d) of
\* the target day when d <= 540, and no slot when d is larger
C8_EmptyDayOneSlot ==
    (call.op = "suggest" /\ tasksOnDate = <<>>)
    => IF call.duration <= 540
       THEN freeSlots =
              <<[start |-> At(toDateString(call.targetDate), 9, 0, 0),
                 end |-> At(toDateString(call.targetDate), 9, 0, 0)
                           + call.duration * PerMinute]>>
       ELSE freeSlots = <<>>

\* C9: for n commitments sorted by start, each with start <= end, freeSlots
\* returns at most n + 1 slots, strictly ascending by start and not overlapping
C9_SlotsAscendingDisjoint ==
    (/\ call.op = "suggest"
     /\ IsSortedByStart(tasksOnDate)
     /\ \A k \in 1..Len(tasksOnDate) : tasksOnDate[k].start <= tasksOnDate[k].end)
    => /\ Len(freeSlots) <= Len(tasksOnDate) + 1
       /\ \A j, k \in 1..Len(freeSlots) :
             j < k => /\ freeSlots[j].start < freeSlots[k].start
                      /\ freeSlots[j].end <= freeSlots[k].start

\* a call with overlapping commitments that yields a slot for every gap
C9_Witness ==
    /\ call.op = "suggest"
    /\ Len(tasksOnDate) >= 2
    /\ Len(freeSlots) = Len(tasksOnDate) + 1

(***************************************************************************)
(* Properties of the natural-language parser                               *)
(***************************************************************************)
\* C10: for every input, the empty string included, extract returns a result
\* whose title is a non-empty string
C10_TitleNonEmpty ==
    call.op = "parseNaturalLanguage" => parsed.title # ""

\* a parse of a non-empty input of which the removals leave nothing
C10_Witness ==
    /\ call.op = "parseNaturalLanguage"
    /\ typed >= 2
    /\ parsed.title = "New Task"

\* the input of the last parse, in lower case
ParsedLower == toLowerCase(call.input)

\* word occurs in lower as a whole word (between non-word characters)
HasWord(lower, word) == \E p \in 1..Len(lower) : WordAt(lower, p, word)

\* C11: extract("") returns the placeholder title "New Task", priority
\* medium, no dueDate and no labels
C11_EmptyInput ==
    (call.op = "parseNaturalLanguage" /\ call.input = "") =>
        /\ parsed.title = "New Task"
        /\ parsed.priority = "medium"
        /\ parsed.dueDate = NoDate
        /\ parsed.labels = <<>>

\* a parse of the empty input
C11_Witness ==
    /\ call.op = "parseNaturalLanguage"
    /\ call.input = ""
    /\ typed = 0
    /\ parsed # NoParse

\* the priority mapping in its declared order, as the claim lists it
DeclaredPriorities ==
    << <<"low", "low">>, <<"medium", "medium">>, <<"high", "high">>,
       <<"urgent", "urgent">>, <<"important", "high">>, <<"critical", "urgent">>,
       <<"asap", "urgent">> >>

\* C12: the priority is the value of the first keyword, in the declared order
\* of the mapping, that occurs in the lower-cased input, wherever the keywords
\* stand in the input, and medium when none occurs; "important asap task" and
\* "asap important task" both give high
C12_PriorityByDeclaredOrder ==
    call.op = "parseNaturalLanguage" =>
        LET hits == {k \in 1..Len(DeclaredPriorities) :
                        includes(ParsedLower, DeclaredPriorities[k][1])}
        IN  /\ hits = {} => parsed.priority = "medium"
            /\ \A k \in hits :
                  (\A j \in hits : k <= j) => parsed.priority = DeclaredPriorities[k][2]
            /\ call.input \in {"important asap task", "asap important task"} =>
                  parsed.priority = "high"

\* a parse of a text in which the later keyword of the mapping stands first
C12_Witness ==
    /\ call.op = "parseNaturalLanguage"
    /\ call.input = "asap important task"
    /\ parsed.priority = "high"

\* C13: the labels are exactly the vocabulary words that occur in the
\* lower-cased input as whole words, in vocabulary order; a vocabulary word
\* inside a longer word ("work" in "homework") is not a label
C13_LabelsAreWholeWords ==
    call.op = "parseNaturalLanguage" =>
        parsed.labels = SelectSeq(LABEL_KEYWORDS, LAMBDA label : HasWord(ParsedLower, label))

\* C14: extract("Call mom tomorrow at 3pm") has the dueDate tomorrow at 15:00
\* local time, priority medium and a label "call"
C14_ExampleDueDate ==
    (call.op = "parseNaturalLanguage" /\ call.input = "Call mom tomorrow at 3pm") =>
        /\ parsed.dueDate = At(toDateString(call.now) + 1, 15, 0, 0)
        /\ parsed.priority = "medium"
        /\ \E k \in 1..Len(parsed.labels) : parsed.labels[k] = "call"

\* a parse of the example
C14_Witness ==
    /\ call.op = "parseNaturalLanguage"
    /\ call.input = "Call mom tomorrow at 3pm"
    /\ parsed.dueDate # NoDate

\* C15: extract("Call mom tomorrow at 3pm") has the title "Call mom"
C15_ExampleTitle ==
    (call.op = "parseNaturalLanguage" /\ call.input = "Call mom tomorrow at 3pm") =>
        parsed.title = "Call mom"

\* C19: when no clock-time pattern matches, an input that contains one
\* time-of-day word as a word and no other resolves to that word's hour with
\* minute 0 (midnight to hour 0)
C19_TimeWordHour ==
    (call.op = "parseNaturalLanguage" /\ TimeMatchesFrom(call.input, 1) = <<>>) =>
        \A k \in 1..Len(TIME_KEYWORDS) :
            (/\ HasWord(ParsedLower, TIME_KEYWORDS[k][1])
             /\ \A j \in 1..Len(TIME_KEYWORDS) :
                   j # k => ~HasWord(ParsedLower, TIME_KEYWORDS[j][1]))
            => /\ parsed.dueDate # NoDate
               /\ getHours(parsed.dueDate) = TIME_KEYWORDS[k][2]
               /\ getMinutes(parsed.dueDate) = 0

\* C20: dueDate is absent exactly when neither a date keyword nor a time was
\* resolved; with a date keyword it falls on the keyword's calendar date at
\* the resolved hour:minute, or at local midnight without a time; with a time
\* only it falls on the calendar date of now at the resolved hour:minute
C20_DueDateCombination ==
    call.op = "parseNaturalLanguage" =>
        LET date == FirstIncluded(ParsedLower, DATE_KEYWORDS)
            time == ParsedTime(call.input, ParsedLower)
            day == IF date # 0 THEN toDateString(DateOf(DATE_KEYWORDS[date], call.now))
                   ELSE toDateString(call.now)
        IN  /\ parsed.dueDate = NoDate <=> (date = 0 /\ ~time.found)
            /\ time.found =>
                  /\ toDateString(parsed.dueDate) = day
                  /\ getHours(parsed.dueDate) = time.hour
                  /\ getMinutes(parsed.dueDate) = time.minute
            /\ (date # 0 /\ ~time.found) => parsed.dueDate = At(day, 0, 0, 0)

(***************************************************************************)
(* Properties of the REST routes                                           *)
(***************************************************************************)
\* the last request was a PUT or DELETE of a list that was the default list
OnDefaultList ==
    /\ call.op \in {"PUT /api/lists/[id]", "DELETE /api/lists/[id]"}
    /\ parseIntOrNaN(call.id) = Inbox.id

\* the default list is in its table with the fields it was created with
DefaultListKept == Len(listTable) >= Inbox.id /\ listTable[Inbox.id] = Inbox

NamesIn(table) == {row.name : row \in Rows(table)}

\* C17: POST /api/labels responds 201 and creates the label when the name
\* has 2 to 30 characters, no label uses it and the color is a 6-digit hex
\* code or absent; it responds 409 and creates nothing when the name is in
\* use; it responds 400 and creates nothing when the name is missing, too
\* short or too long or the color is not a hex code
C17_LabelPostAnswers ==
    call.op = "POST /api/labels" =>
        LET body == call.body
            badName == Falsy(body, "name") \/ Len(body.name) < 2 \/ Len(body.name) > 30
            badColor == ~Falsy(body, "color") /\ ~IsHexColor(body.color)
        IN  IF badName \/ badColor
            THEN response.status = 400 /\ labelTable = call.before
            ELSE IF body.name \in NamesIn(call.before)
            THEN response.status = 409 /\ labelTable = call.before
            ELSE /\ response.status = 201
                 /\ Len(labelTable) = Len(call.before) + 1
                 /\ SubSeq(labelTable, 1, Len(call.before)) = call.before
                 /\ labelTable[Len(labelTable)].name = body.name

\* C18: no two stored labels have the same name, a PUT that renames a label
\* to the name of another label responds 409, and a PUT that keeps the
\* label's own name succeeds
C18_LabelNamesUnique ==
    /\ \A j, k \in 1..Len(labelTable) :
          (j # k /\ labelTable[j].id # 0 /\ labelTable[k].id # 0)
              => labelTable[j].name # labelTable[k].name
    /\ (/\ call.op = "PUT /api/labels/[id]"
        /\ findUnique(call.before, parseIntOrNaN(call.id)).id # 0
        /\ ~Falsy(call.body, "name")
        /\ Falsy(call.body, "color") \/ IsHexColor(call.body.color))
       => LET label == findUnique(call.before, parseIntOrNaN(call.id))
          IN  IF call.body.name = label.name
              THEN /\ response.status = 200
                   /\ labelTable[label.id].name = label.name
              ELSE call.body.name \in NamesIn(call.before) =>
                       response.status = 409 /\ labelTable = call.before

(***************************************************************************)
(* More properties of the natural-language parser                          *)
(***************************************************************************)
\* the clock-time matches of the input of the last parse
ParsedMatches == TimeMatchesFrom(call.input, 1)

\* C21: the clock time is that of the first clock-time match from the left:
\* 12 am is hour 0, 12 pm hour 12, h pm hour h + 12, h am hour h, an hour
\* without meridiem is taken as it is, and the minute is 0 when not given
C21_ClockTimeOfFirstMatch ==
    (call.op = "parseNaturalLanguage" /\ ParsedMatches # <<>>
     /\ FirstIncluded(ParsedLower, DATE_KEYWORDS) = 0) =>
        LET m == ParsedMatches[1]
            h == parseInt(m.hour)
            hour == CASE m.ampm \in {"am", "AM"} -> IF h = 12 THEN 0 ELSE h
                      [] m.ampm \in {"pm", "PM"} -> IF h = 12 THEN 12 ELSE h + 12
                      [] OTHER -> h
            minute == IF m.minute = "" THEN 0 ELSE parseInt(m.minute)
        IN  /\ \A p \in 1..(m.from - 1) : ~IsDigit(Char(call.input, p))
            /\ parsed.dueDate = call.now + (hour - getHours(call.now)) * PerHour
                                          + (minute - getMinutes(call.now)) * PerMinute

\* a parse of a text with two clock times, the first of them 12 pm
C21_Witness ==
    /\ call.op = "parseNaturalLanguage"
    /\ Len(ParsedMatches) >= 2
    /\ ParsedMatches[1].hour = "12" /\ ParsedMatches[1].ampm = "pm"
    /\ ParsedMatches[2].hour # "12"
    /\ getHours(parsed.dueDate) = 12

\* the date vocabulary in its declared order, as the claim lists it
DeclaredDates ==
    <<"today", "tomorrow", "yesterday", "next week", "next month", "end of week",
      "end of month">>

\* C22: with several date keywords in the input, the date is that of the
\* keyword that comes first in the declared order of the vocabulary, wherever
\* the keywords stand; "yesterday or tomorrow" resolves to tomorrow
C22_DateByDeclaredOrder ==
    (call.op = "parseNaturalLanguage" /\ ParsedMatches = <<>>
     /\ FirstIncluded(ParsedLower, Keys(TIME_KEYWORDS)) = 0) =>
        LET hits == {k \in 1..Len(DeclaredDates) : includes(ParsedLower, DeclaredDates[k])}
        IN  /\ \A k \in hits :
                  (\A j \in hits : k <= j) =>
                      parsed.dueDate = DateOf(DeclaredDates[k], call.now)
            /\ call.input = "yesterday or tomorrow" =>
                  parsed.dueDate = At(toDateString(call.now) + 1, 0, 0, 0)

\* a parse of a text in which the later keyword of the vocabulary stands first
C22_Witness ==
    /\ call.op = "parseNaturalLanguage"
    /\ call.input = "yesterday or tomorrow"
    /\ parsed.dueDate = At(toDateString(call.now) + 1, 0, 0, 0)

\* the last second of the calendar month that follows the month of d
EndOfNextMonth(d) ==
    LET months == getYear(d) * 12 + getMonth(d)
        year == months \div 12
        month == (months % 12) + 1
    IN  (year * DaysPerYear + DaysBeforeMonth(month + 1)) * PerDay - 1

\* C23: for an input whose date keyword is "end of month" and that has no
\* time, dueDate is the end of the last day of the month after that of now
C23_EndOfMonthIsEndOfNextMonth ==
    (/\ call.op = "parseNaturalLanguage"
     /\ FirstIncluded(ParsedLower, DATE_KEYWORDS) # 0
     /\ DATE_KEYWORDS[FirstIncluded(ParsedLower, DATE_KEYWORDS)] = "end of month"
     /\ ~ParsedTime(call.input, ParsedLower).found)
    => parsed.dueDate = EndOfNextMonth(call.now)

\* C24: the title has no whole-word occurrence, in any case, of a date
\* phrase, a priority word, a label word or a filler word, and no leading,
\* trailing or repeated white space
C24_TitleHasNoVocabulary ==
    call.op = "parseNaturalLanguage" =>
        LET title == toLowerCase(parsed.title)
            words == DATE_KEYWORDS \o Keys(PRIORITY_KEYWORDS) \o LABEL_KEYWORDS \o FILLER_WORDS
        IN  /\ \A k \in 1..Len(words) : ~HasWord(title, words[k])
            /\ title = trim(title)
            /\ ~includes(title, "  ")

\* C30: the title has no decimal digit
C30_TitleHasNoDigit ==
    call.op = "parseNaturalLanguage" =>
        \A k \in 1..Len(parsed.title) : ~IsDigit(Char(parsed.title, k))

\* a parse of a text with two runs of digits, of which words are left
C30_Witness ==
    /\ call.op = "parseNaturalLanguage"
    /\ includes(call.input, "Buy 2 apples")
    /\ includes(call.input, "Report 2024")
    /\ includes(parsed.title, "apples")
    /\ includes(parsed.title, "Report")

(***************************************************************************)
(* More properties of the scheduling suggestions                           *)
(***************************************************************************)
\* the last call was suggest and its suggestions come from free slots
FromSlots == call.op = "suggest" /\ freeSlots # <<>>

\* the options of the last call with the priority p
WithPriority(p) ==
    [priority |-> p] @@ [k \in DOMAIN call.options \ {"priority"} |-> call.options[k]]

\* C25: the confidence of a suggestion depends on the start hour h of its
\* slot only: high for h in 9..11 or 14..16, medium for another h with
\* 9 <= h < 18, low otherwise; calls that differ in options.priority only
\* return the same confidences and the same suggested times
C25_ConfidenceByHour ==
    FromSlots =>
        /\ \A k \in 1..Len(suggestions) :
              LET h == getHours(suggestions[k].suggestedTime)
              IN  suggestions[k].confidence =
                    IF h \in (9..11) \cup (14..16) THEN "high"
                    ELSE IF h >= 9 /\ h < 18 THEN "medium"
                    ELSE "low"
        /\ \A p \in {"low", "medium", "high", "urgent"} :
              LET other == getSmartSchedulingSuggestions(call.tasks, WithPriority(p),
                                                         call.now).suggestions
              IN  /\ Len(other) = Len(suggestions)
                  /\ \A k \in 1..Len(other) :
                        /\ other[k].confidence = suggestions[k].confidence
                        /\ other[k].suggestedTime = suggestions[k].suggestedTime

\* a commitment of the target day starts less than two hours from d
NearbyStart(d) ==
    \E k \in 1..Len(call.tasks) :
        /\ toDateString(call.tasks[k].start) = toDateString(call.targetDate)
        /\ call.tasks[k].start - d < 2 * PerHour
        /\ d - call.tasks[k].start < 2 * PerHour

\* C26: the reason of a suggestion is that of the first condition that
\* applies: start hour in 9..11 morning, in 14..16 afternoon, in 11..13 (so
\* 12 or 13) lunch, otherwise "no nearby tasks" when no commitment of the
\* target day starts less than two hours from the slot's start, else "fits
\* well"
C26_ReasonBranchOrder ==
    FromSlots =>
        \A k \in 1..Len(suggestions) :
            LET d == suggestions[k].suggestedTime
                h == getHours(d)
            IN  suggestions[k].reason.text =
                  IF h \in 9..11 THEN "Great morning slot - high productivity time"
                  ELSE IF h \in 14..16 THEN "Good afternoon slot - focused work time"
                  ELSE IF h \in {12, 13} THEN "Lunch hour slot - good for meetings"
                  ELSE IF ~NearbyStart(d) THEN "Free slot - no nearby tasks"
                  ELSE "Available slot - fits well with your schedule"

\* one call with a slot of hour 11, which takes the morning branch, and a
\* slot after the afternoon hours with no commitment nearby
C26_Witness ==
    /\ FromSlots
    /\ \E k \in 1..Len(suggestions) :
          /\ getHours(suggestions[k].suggestedTime) = 11
          /\ suggestions[k].reason.text = "Great morning slot - high productivity time"
    /\ \E k \in 1..Len(suggestions) :
          /\ getHours(suggestions[k].suggestedTime) >= 17
          /\ suggestions[k].reason.text = "Free slot - no nearby tasks"

\* the calendar day the claim names: that of the preferred date, else today
\* before 18:00, else tomorrow
TargetDay ==
    IF "preferredDate" \in DOMAIN call.options
    THEN toDateString(call.options.preferredDate)
    ELSE IF getHours(call.now) < 18 THEN toDateString(call.now)
    ELSE toDateString(call.now) + 1

\* the commitments of the last call that start on the day the claim names
StartingOnTargetDay ==
    SelectSeq(call.tasks, LAMBDA t : toDateString(t.start) = TargetDay)

\* C27: the slots are those of the target day T (the preferred date, else
\* today before 18:00, else tomorrow), and only the commitments that start on
\* day T count: the call on these commitments alone returns the same
\* suggestions
C27_OnlyTargetDayCounts ==
    call.op = "suggest" =>
        /\ \A k \in 1..Len(freeSlots) : toDateString(freeSlots[k].start) = TargetDay
        /\ FromSlots =>
              \A k \in 1..Len(suggestions) :
                  toDateString(suggestions[k].suggestedTime) = TargetDay
        /\ suggestions = getSmartSchedulingSuggestions(StartingOnTargetDay, call.options,
                                                       call.now).suggestions

\* a call in the evening without a preferred date, with commitments of today
\* and of tomorrow, whose suggestions are slots of tomorrow
C27_Witness ==
    /\ FromSlots
    /\ "preferredDate" \notin DOMAIN call.options
    /\ getHours(call.now) >= 18
    /\ Len(StartingOnTargetDay) > 0
    /\ Len(StartingOnTargetDay) < Len(call.tasks)
    /\ Len(suggestions) >= 2

\* C28: without a preferred date no suggestion is earlier than now
C28_NoSuggestionBeforeNow ==
    (call.op = "suggest" /\ "preferredDate" \notin DOMAIN call.options) =>
        \A k \in 1..Len(suggestions) : suggestions[k].suggestedTime >= call.now

(***************************************************************************)
(* More properties of the REST routes                                      *)
(***************************************************************************)
\* C29: POST /api/tasks is all or nothing: a request answered with 400, 404
\* or 500 has persisted no task, task-label link, label or subtask row
C29_TaskPostAllOrNothing ==
    [][(call'.op = "POST /api/tasks" /\ response'.status \in {400, 404, 500})
       => UNCHANGED <<taskTable, taskLabelTable, labelTable, subtaskTable>>]_vars

====
